---- MODULE Spec2Model ----
(***************************************************************************)
(* Model of src/arithmetic_exp.py: evaluate(expression), its sanitizer,    *)
(* parenthesis balance scan, parse_number, perform_arithmetic_op and the   *)
(* recursive parse_expression.                                             *)
(*                                                                         *)
(* Python integers are unbounded, and '/' is computed as int(a / b): the   *)
(* true quotient rounded to an IEEE-754 double, then truncated.  Values    *)
(* are therefore modelled as sign-magnitude integers over bit sequences    *)
(* (least significant bit first), so that neither the width of the         *)
(* checker's integers nor an idealised division enters the model.          *)
(***************************************************************************)
EXTENDS Integers, Sequences, FiniteSets, TLC

(***************************************************************************)
(* Unbounded integers (Python int).                                        *)
(***************************************************************************)

\* A magnitude is a sequence of bits, least significant first, whose last
\* bit is 1; zero is the empty sequence.  The loops over bit positions are
\* written as recursions that halve the range lo..hi; the test on `left`
\* has the first half computed before the second half starts.
Norm(m) ==
    LET ones == {j \in 1..Len(m) : m[j] = 1}
    IN  IF ones = {} THEN <<>>
        ELSE SubSeq(m, 1, CHOOSE j \in ones : \A k \in ones : k <= j)

Bit(m, j) == IF j <= Len(m) THEN m[j] ELSE 0

Max2(x, y) == IF x > y THEN x ELSE y

NatToMag(k) == Norm([j \in 1..31 |-> (k \div 2^(j - 1)) % 2])

\* st = [c: carry, out: the bits so far]
AddStep(a, b, st, j) ==
    LET t == Bit(a, j) + Bit(b, j) + st.c
    IN  [c |-> t \div 2, out |-> Append(st.out, t % 2)]

RECURSIVE AddRange(_, _, _, _, _)
AddRange(a, b, st, lo, hi) ==
    IF lo > hi THEN st
    ELSE IF lo = hi THEN AddStep(a, b, st, lo)
    ELSE LET mid == (lo + hi) \div 2
             left == AddRange(a, b, st, lo, mid)
         IN  IF left.c >= 0 THEN AddRange(a, b, left, mid + 1, hi) ELSE left

MagAdd(a, b) ==
    LET r == AddRange(a, b, [c |-> 0, out |-> <<>>], 1, Max2(Len(a), Len(b)))
    IN  IF r.c = 1 THEN Append(r.out, 1) ELSE r.out

\* st = [c: borrow, out: the bits so far]
SubStep(a, b, st, j) ==
    LET t == Bit(a, j) - Bit(b, j) - st.c
    IN  [c |-> IF t < 0 THEN 1 ELSE 0, out |-> Append(st.out, t % 2)]

RECURSIVE SubRange(_, _, _, _, _)
SubRange(a, b, st, lo, hi) ==
    IF lo > hi THEN st
    ELSE IF lo = hi THEN SubStep(a, b, st, lo)
    ELSE LET mid == (lo + hi) \div 2
             left == SubRange(a, b, st, lo, mid)
         IN  IF left.c >= 0 THEN SubRange(a, b, left, mid + 1, hi) ELSE left

\* a - b for a >= b.
MagSub(a, b) == Norm(SubRange(a, b, [c |-> 0, out |-> <<>>], 1, Len(a)).out)

\* a < b on magnitudes.
MagLess(a, b) ==
    IF Len(a) # Len(b) THEN Len(a) < Len(b)
    ELSE \E j \in 1..Len(a) :
            a[j] < b[j] /\ \A k \in (j + 1)..Len(a) : a[k] = b[k]

\* a * 2^k.
MagShl(a, k) == IF a = <<>> THEN <<>> ELSE [j \in 1..k |-> 0] \o a

\* a \div 2^k.
MagShr(a, k) == IF Len(a) <= k THEN <<>> ELSE SubSeq(a, k + 1, Len(a))

\* acc + b * 2^(j-1) for each set bit j of a.
RECURSIVE MulRange(_, _, _, _, _)
MulRange(a, b, acc, lo, hi) ==
    IF lo > hi THEN acc
    ELSE IF lo = hi THEN (IF a[lo] = 1 THEN MagAdd(acc, MagShl(b, lo - 1)) ELSE acc)
    ELSE LET mid == (lo + hi) \div 2
             left == MulRange(a, b, acc, lo, mid)
         IN  IF Len(left) >= 0 THEN MulRange(a, b, left, mid + 1, hi) ELSE left

MagMul(a, b) == IF b = <<>> THEN <<>> ELSE MulRange(a, b, <<>>, 1, Len(a))

\* Binary long division, one bit of the dividend a at a time from the most
\* significant (step j takes bit Len(a) + 1 - j); st = [q, r].
DivStep(a, b, st, j) ==
    LET bit == a[Len(a) + 1 - j]
        r1  == IF st.r = <<>> /\ bit = 0 THEN <<>> ELSE <<bit>> \o st.r
        ge  == ~MagLess(r1, b)
    IN  [q |-> IF st.q = <<>> /\ ~ge THEN <<>> ELSE <<IF ge THEN 1 ELSE 0>> \o st.q,
         r |-> IF ge THEN MagSub(r1, b) ELSE r1]

RECURSIVE DivRange(_, _, _, _, _)
DivRange(a, b, st, lo, hi) ==
    IF lo > hi THEN st
    ELSE IF lo = hi THEN DivStep(a, b, st, lo)
    ELSE LET mid == (lo + hi) \div 2
             left == DivRange(a, b, st, lo, mid)
         IN  IF Len(left.q) >= 0 THEN DivRange(a, b, left, mid + 1, hi) ELSE left

\* Quotient and remainder of magnitudes, b # 0.
MagDivMod(a, b) == DivRange(a, b, [q |-> <<>>, r |-> <<>>], 1, Len(a))

\* A Python int: sign and magnitude; zero is never negative.
MkInt(neg, mag) == [neg |-> neg /\ mag # <<>>, mag |-> mag]

IntOf(k) == IF k < 0 THEN MkInt(TRUE, NatToMag(0 - k)) ELSE MkInt(FALSE, NatToMag(k))

IsZero(a) == a.mag = <<>>

IntNeg(a) == MkInt(~a.neg, a.mag)

IntAdd(a, b) ==
    IF a.neg = b.neg THEN MkInt(a.neg, MagAdd(a.mag, b.mag))
    ELSE IF MagLess(a.mag, b.mag) THEN MkInt(b.neg, MagSub(b.mag, a.mag))
    ELSE MkInt(a.neg, MagSub(a.mag, b.mag))

IntSub(a, b) == IntAdd(a, IntNeg(b))

IntMul(a, b) == MkInt(a.neg # b.neg, MagMul(a.mag, b.mag))

(***************************************************************************)
(* int(a / b): Python's true division of two ints gives the double nearest *)
(* to the exact quotient (round half to even, 53-bit significand); int()   *)
(* then truncates that double.  The quotients of this model stay far below *)
(* 2^1024, the range where a / b raises OverflowError instead.             *)
(***************************************************************************)
MantBits == 53

\* |a| / |b| rounded to MantBits significant bits, then cut to an integer.
TrueDivTruncMag(a, b) ==
    LET qr == MagDivMod(a, b)
        k  == MantBits - Len(qr.q)
    IN  IF k >= 0
        THEN \* k fraction bits are kept beside the integer part
             LET fr == MagDivMod(MagShl(qr.r, k), b)
                 n  == MagAdd(MagShl(qr.q, k), fr.q)
                 r2 == MagShl(fr.r, 1)
                 odd == n # <<>> /\ Head(n) = 1
                 up == MagLess(b, r2) \/ (r2 = b /\ odd)
                 n1 == IF up THEN MagAdd(n, <<1>>) ELSE n
             IN  MagShr(n1, k)
        ELSE \* the quotient itself has more than MantBits bits
             LET e  == 0 - k
                 bs == MagShl(b, e)
                 d  == MagDivMod(a, bs)
                 r2 == MagShl(d.r, 1)
                 odd == d.q # <<>> /\ Head(d.q) = 1
                 up == MagLess(bs, r2) \/ (r2 = bs /\ odd)
                 n1 == IF up THEN MagAdd(d.q, <<1>>) ELSE d.q
             IN  MagShl(n1, e)

TrueDivTrunc(a, b) == MkInt(a.neg # b.neg, TrueDivTruncMag(a.mag, b.mag))

\* Optional[int]: an int record or None.
None == [none |-> TRUE]

perform_arithmetic_op(a, op, b) ==
    IF op = "+" THEN IntAdd(a, b)
    ELSE IF op = "-" THEN IntSub(a, b)
    ELSE IF op = "*" THEN IntMul(a, b)
    ELSE IF op = "/" THEN (IF IsZero(b) THEN None ELSE TrueDivTrunc(a, b))
    ELSE None

(***************************************************************************)
(* The input and the state of one call of evaluate.                        *)
(***************************************************************************)
Digits == {"0", "1", "2", "3", "4", "5", "6", "7", "8", "9"}

Signs == {"+", "-"}

Operators == {"+", "-", "*", "/"}

\* allowed = set("0123456789+-*/()")
allowed == Digits \cup Operators \cup {"(", ")"}

\* Characters for which str.isspace() holds, as far as inputs here use them.
isspace(ch) == ch \in {" ", "\t"}

isdigit(ch) == ch \in Digits

DigitVal(ch) ==
    CASE ch = "0" -> 0 [] ch = "1" -> 1 [] ch = "2" -> 2 [] ch = "3" -> 3
      [] ch = "4" -> 4 [] ch = "5" -> 5 [] ch = "6" -> 6 [] ch = "7" -> 7
      [] ch = "8" -> 8 [] ch = "9" -> 9

\* s[i] with Python's 0-based index.
At(str, i) == str[i + 1]

\* s[a:b]
Slice(str, a, b) == SubSeq(str, a + 1, b)

VARIABLES
    expression,  \* the argument of evaluate
    pc,          \* "sanitize", "balance", "parse", "done"
    s,           \* the whitespace-free input
    stack,       \* the active calls of parse_expression, innermost last
    rv,          \* the tuple a call of parse_expression has just returned
    ret,         \* what evaluate returns
    pn,          \* the last call of parse_number: its argument and its result
    ap,          \* the last call of perform_arithmetic_op: its arguments and its result
    sites,       \* the return statements of parse_expression executed so far
    dz           \* nesting depths at which '/' met a zero right operand

vars == <<expression, pc, s, stack, rv, ret, pn, ap, sites, dz>>

NoneOp == "None"

NoCall == [live |-> FALSE]

Unset == [unset |-> TRUE]

(***************************************************************************)
(* Sanitizer and balance scan (lines 15-38).                               *)
(***************************************************************************)
\* Variant of strip: keeps only digits and operators, so parentheses are
\* dropped with the whitespace.
keeps_digit_or_operator(ch) == ch \in Digits \cup Operators

strip_DropsParentheses(e) == SelectSeq(e, keeps_digit_or_operator)

not_space(ch) == ~isspace(ch)

strip(e) == SelectSeq(e, not_space)

all_allowed(str) == \A k \in 1..Len(str) : str[k] \in allowed

\* The scan of lines 27-38 from index k with the running balance: TRUE when
\* the balance never goes negative and ends at zero.
RECURSIVE balance_scan(_, _, _)
balance_scan(str, k, balance) ==
    IF k > Len(str) THEN balance = 0
    ELSE IF str[k] = "(" THEN balance_scan(str, k + 1, balance + 1)
    ELSE IF str[k] = ")"
         THEN (IF balance - 1 < 0 THEN FALSE ELSE balance_scan(str, k + 1, balance - 1))
    ELSE balance_scan(str, k + 1, balance)

balance_ok(str) == balance_scan(str, 1, 0)

(***************************************************************************)
(* parse_number (lines 41-75).                                             *)
(***************************************************************************)
\* The index the while loop of lines 59-60 stops at.
RECURSIVE digits_end(_, _)
digits_end(str, i) ==
    IF i < Len(str) /\ isdigit(At(str, i)) THEN digits_end(str, i + 1) ELSE i

\* int(num_str) for a string of decimal digits: acc * 10 + digit, digit by digit.
RECURSIVE DigitsRange(_, _, _, _)
DigitsRange(ds, acc, lo, hi) ==
    IF lo > hi THEN acc
    ELSE IF lo = hi THEN MagAdd(MagMul(acc, NatToMag(10)), NatToMag(DigitVal(ds[lo])))
    ELSE LET mid == (lo + hi) \div 2
             left == DigitsRange(ds, acc, lo, mid)
         IN  IF Len(left) >= 0 THEN DigitsRange(ds, left, mid + 1, hi) ELSE left

int_of_digits(ds) == DigitsRange(ds, <<>>, 1, Len(ds))

parse_number(str, i0) ==
    LET n == Len(str) IN
    IF i0 >= n THEN [val |-> None, pos |-> i0]
    ELSE LET signed == At(str, i0) \in Signs
             sign_char == IF signed THEN At(str, i0) ELSE NoneOp
             i1 == IF signed THEN i0 + 1 ELSE i0
         IN  IF signed /\ i1 >= n THEN [val |-> None, pos |-> i1]
             ELSE LET start == i1
                      i2 == digits_end(str, start)
                  IN  IF i2 = start THEN [val |-> None, pos |-> start]
                      ELSE LET num == MkInt(FALSE, int_of_digits(Slice(str, start, i2)))
                           IN  [val |-> IF sign_char = "-" THEN IntNeg(num) ELSE num,
                                pos |-> i2]

(***************************************************************************)
(* The configuration of a call of evaluate, as a record, and the steps of  *)
(* the program as functions on it.  The actions below apply these steps to *)
(* the variables; Run applies them until evaluate returns.                 *)
(***************************************************************************)
Cfg ==
    [expression |-> expression, pc |-> pc, s |-> s, stack |-> stack, rv |-> rv,
     ret |-> ret, pn |-> pn, ap |-> ap, sites |-> sites, dz |-> dz]

\* The state at the call evaluate(e).
Start(e) ==
    [expression |-> e, pc |-> "sanitize", s |-> <<>>, stack |-> <<>>, rv |-> NoCall,
     ret |-> Unset, pn |-> NoCall, ap |-> NoCall, sites |-> {}, dz |-> {}]

\* The locals of a call parse_expression(i, sub_expr) at its first line.
\* start keeps the argument i; call and unary are set while the call waits
\* for a recursive call made at line 125 or line 134.
Frame(i, sub_expr) ==
    [i |-> i, start |-> i, sub_expr |-> sub_expr, result |-> None,
     current_op |-> NoneOp, expecting_number |-> TRUE, call |-> "", unary |-> 0]

Top(c) == c.stack[Len(c.stack)]

SetTop(c, f) == [c EXCEPT !.stack[Len(c.stack)] = f]

\* "return val, pos, ok" of the innermost call, executed at line `site`;
\* frame keeps the locals the call returned with.
Return(c, site, val, pos, ok) ==
    [c EXCEPT !.stack = SubSeq(c.stack, 1, Len(c.stack) - 1),
              !.rv = [live |-> TRUE, val |-> val, pos |-> pos, ok |-> ok, site |-> site,
                      frame |-> Top(c)],
              !.sites = @ \cup {site}]

\* Variant of Accumulate: a failed operation is skipped and the result kept.
Accumulate_SkipsFailedOp(c, f, operand) ==
    IF f.result = None
    THEN SetTop(c, [f EXCEPT !.result = operand, !.expecting_number = FALSE])
    ELSE IF f.current_op = NoneOp
    THEN Return(SetTop(c, f), "L163", None, f.i, FALSE)
    ELSE LET applied == perform_arithmetic_op(f.result, f.current_op, operand)
             c1 == [c EXCEPT !.ap = [live |-> TRUE, a |-> f.result, op |-> f.current_op,
                                     b |-> operand, out |-> applied],
                             !.dz = IF f.current_op = "/" /\ IsZero(operand)
                                    THEN @ \cup {Len(c.stack) - 1} ELSE @]
         IN  SetTop(c1, [f EXCEPT !.result = IF applied = None THEN f.result ELSE applied,
                                  !.expecting_number = FALSE])

\* Lines 158-169: fold the operand into the result of the innermost call,
\* whose locals (with i already advanced) are f.
Accumulate(c, f, operand) ==
    IF f.result = None
    THEN SetTop(c, [f EXCEPT !.result = operand, !.expecting_number = FALSE])
    ELSE IF f.current_op = NoneOp
    THEN Return(SetTop(c, f), "L163", None, f.i, FALSE)
    ELSE LET applied == perform_arithmetic_op(f.result, f.current_op, operand)
             c1 == [c EXCEPT !.ap = [live |-> TRUE, a |-> f.result, op |-> f.current_op,
                                     b |-> operand, out |-> applied],
                             !.dz = IF f.current_op = "/" /\ IsZero(operand)
                                    THEN @ \cup {Len(c.stack) - 1} ELSE @]
         IN  IF applied = None
             THEN Return(SetTop(c1, f), "L166", None, f.i, FALSE)
             ELSE SetTop(c1, [f EXCEPT !.result = applied, !.expecting_number = FALSE])

\* Lines 15-23.
do_sanitize(c) ==
    LET str == strip(c.expression)
    IN  IF all_allowed(str)
        THEN [c EXCEPT !.s = str, !.pc = "balance"]
        ELSE [c EXCEPT !.s = str, !.pc = "done", !.ret = None]

\* Lines 25-38, and the call of line 201.
do_balance(c) ==
    IF balance_ok(c.s)
    THEN [c EXCEPT !.pc = "parse", !.stack = <<Frame(0, FALSE)>>]
    ELSE [c EXCEPT !.pc = "done", !.ret = None]

\* The innermost call is at the loop test of line 115.
AtLoopTest(c) == c.pc = "parse" /\ ~c.rv.live /\ c.stack # <<>>

\* ... and the test holds: ch = s[i] is read (line 116).
InLoop(c) == AtLoopTest(c) /\ Top(c).i < Len(c.s)

Ch(c) == At(c.s, Top(c).i)

\* The condition of line 121.
is_signed_group(c) ==
    /\ Ch(c) \in Signs
    /\ Top(c).i + 1 < Len(c.s)
    /\ At(c.s, Top(c).i + 1) = "("

\* Lines 191-198: the loop has ended.
can_end_of_input(c) == AtLoopTest(c) /\ Top(c).i >= Len(c.s)

\* Variant of do_end_of_input: the test of expecting_number is missing, so a
\* trailing operator is accepted.
do_end_of_input_AcceptsTrailingOp(c) ==
    LET f == Top(c)
    IN  IF f.sub_expr THEN Return(c, "L194", None, f.i, FALSE)
        ELSE IF f.result = None THEN Return(c, "L197", None, f.i, FALSE)
        ELSE Return(c, "L198", f.result, f.i, TRUE)

\* Variant of do_end_of_input: the test of sub_expr is missing, so a group
\* left open is accepted.
do_end_of_input_AcceptsOpenGroup(c) ==
    LET f == Top(c)
    IN  IF f.result = None \/ f.expecting_number
        THEN Return(c, "L197", None, f.i, FALSE)
        ELSE Return(c, "L198", f.result, f.i, TRUE)

do_end_of_input(c) ==
    LET f == Top(c)
    IN  IF f.sub_expr THEN Return(c, "L194", None, f.i, FALSE)
        ELSE IF f.result = None \/ f.expecting_number
        THEN Return(c, "L197", None, f.i, FALSE)
        ELSE Return(c, "L198", f.result, f.i, TRUE)

\* Lines 121-125: a sign directly before '(': call parse_expression(i + 1, True).
can_signed_group(c) == InLoop(c) /\ Top(c).expecting_number /\ is_signed_group(c)

do_signed_group(c) ==
    LET f  == Top(c)
        f1 == [f EXCEPT !.i = f.i + 1, !.call = "L125",
                        !.unary = IF Ch(c) = "-" THEN 0 - 1 ELSE 1]
    IN  [SetTop(c, f1) EXCEPT !.stack = Append(@, Frame(f1.i + 1, TRUE))]

\* Lines 132-134: '(': call parse_expression(i + 1, True).
can_group(c) ==
    InLoop(c) /\ Top(c).expecting_number /\ ~is_signed_group(c) /\ Ch(c) = "("

do_group(c) ==
    LET f == Top(c)
    IN  [SetTop(c, [f EXCEPT !.call = "L134"]) EXCEPT !.stack = Append(@, Frame(f.i + 1, TRUE))]

\* Lines 140-147, then 158-169: a signed number.
can_number(c) ==
    /\ InLoop(c) /\ Top(c).expecting_number /\ ~is_signed_group(c) /\ Ch(c) # "("
    /\ (isdigit(Ch(c)) \/ Ch(c) \in Signs)

do_number(c) ==
    LET f  == Top(c)
        r  == parse_number(c.s, f.i)
        c1 == [c EXCEPT !.pn = [live |-> TRUE, start |-> f.i, val |-> r.val, pos |-> r.pos]]
    IN  IF r.val = None THEN Return(c1, "L145", None, f.i, FALSE)
        ELSE Accumulate(c1, [f EXCEPT !.i = r.pos], r.val)

\* Lines 149-156: no operand starts here.
can_no_operand(c) ==
    /\ InLoop(c) /\ Top(c).expecting_number /\ ~is_signed_group(c) /\ Ch(c) # "("
    /\ ~(isdigit(Ch(c)) \/ Ch(c) \in Signs)

do_no_operand(c) ==
    IF Ch(c) = ")" THEN Return(c, "L152", None, Top(c).i, FALSE)
    ELSE Return(c, "L156", None, Top(c).i, FALSE)

\* Lines 173-176: an operator.
can_operator(c) == InLoop(c) /\ ~Top(c).expecting_number /\ Ch(c) \in Operators

\* Variant of do_operator: i is not advanced past the operator.
do_operator_NoAdvance(c) ==
    LET f == Top(c)
    IN  SetTop(c, [f EXCEPT !.current_op = Ch(c), !.expecting_number = TRUE])

do_operator(c) ==
    LET f == Top(c)
    IN  SetTop(c, [f EXCEPT !.current_op = Ch(c), !.i = f.i + 1, !.expecting_number = TRUE])

\* Lines 177-186: ')' where an operator may stand.
can_close(c) ==
    InLoop(c) /\ ~Top(c).expecting_number /\ Ch(c) \notin Operators /\ Ch(c) = ")"

\* Variant of do_close: i is not advanced past the ')'.
do_close_NoAdvance(c) ==
    LET f == Top(c)
    IN  IF f.sub_expr
        THEN IF f.result = None \/ (f.current_op # NoneOp /\ f.expecting_number)
             THEN Return(c, "L182", None, f.i, FALSE)
             ELSE Return(c, "L183", f.result, f.i, TRUE)
        ELSE Return(c, "L186", None, f.i, FALSE)

do_close(c) ==
    LET f == Top(c)
    IN  IF f.sub_expr
        THEN IF f.result = None \/ (f.current_op # NoneOp /\ f.expecting_number)
             THEN Return(c, "L182", None, f.i + 1, FALSE)
             ELSE Return(c, "L183", f.result, f.i + 1, TRUE)
        ELSE Return(c, "L186", None, f.i, FALSE)

\* Lines 187-189: anything else where an operator may stand.
can_bad_operator(c) ==
    InLoop(c) /\ ~Top(c).expecting_number /\ Ch(c) \notin Operators /\ Ch(c) # ")"

do_bad_operator(c) == Return(c, "L189", None, Top(c).i, FALSE)

\* Lines 126-130 or 135-138, then 158-169: a recursive call has returned
\* (sub_val, next_i, ok) to the call that made it.
can_resume(c) == c.pc = "parse" /\ c.rv.live /\ c.stack # <<>>

\* Variant of do_resume: the sign before the group is not applied.
do_resume_IgnoresSign(c) ==
    LET f == Top(c)
        r == c.rv
    IN  IF ~r.ok \/ r.val = None
        THEN Return(c, IF f.call = "L125" THEN "L127" ELSE "L136", None, f.i, FALSE)
        ELSE LET f1 == [f EXCEPT !.i = r.pos, !.call = "", !.unary = 0]
             IN  Accumulate([c EXCEPT !.rv = NoCall], f1, r.val)

do_resume(c) ==
    LET f == Top(c)
        r == c.rv
    IN  IF ~r.ok \/ r.val = None
        THEN Return(c, IF f.call = "L125" THEN "L127" ELSE "L136", None, f.i, FALSE)
        ELSE LET operand == IF f.call = "L125" THEN IntMul(IntOf(f.unary), r.val) ELSE r.val
                 f1 == [f EXCEPT !.i = r.pos, !.call = "", !.unary = 0]
             IN  Accumulate([c EXCEPT !.rv = NoCall], f1, operand)

\* Lines 201-202: the top-level call has returned.
can_finish(c) == c.pc = "parse" /\ c.rv.live /\ c.stack = <<>>

do_finish(c) == [c EXCEPT !.pc = "done", !.ret = IF c.rv.ok THEN c.rv.val ELSE None]

\* One step of the program.
StepOf(c) ==
    CASE c.pc = "sanitize"   -> do_sanitize(c)
      [] c.pc = "balance"    -> do_balance(c)
      [] can_end_of_input(c) -> do_end_of_input(c)
      [] can_signed_group(c) -> do_signed_group(c)
      [] can_group(c)        -> do_group(c)
      [] can_number(c)       -> do_number(c)
      [] can_no_operand(c)   -> do_no_operand(c)
      [] can_operator(c)     -> do_operator(c)
      [] can_close(c)        -> do_close(c)
      [] can_bad_operator(c) -> do_bad_operator(c)
      [] can_resume(c)       -> do_resume(c)
      [] can_finish(c)       -> do_finish(c)

\* 2^k steps from c; a finished call stays as it is.
RECURSIVE Steps(_, _)
Steps(c, k) ==
    IF c.pc = "done" THEN c
    ELSE IF k = 0 THEN StepOf(c)
    ELSE LET half == Steps(c, k - 1)
         IN  IF half.pc = "done" THEN half ELSE Steps(half, k - 1)

\* The program run until evaluate returns: with the two scans, the final
\* return and at most two steps per character and one per call, fewer than
\* 4 * (Len(expression) + 1) steps.
RunLog(e) == CHOOSE k \in 0..20 : 2^k >= 4 * (Len(e) + 1) /\ (k = 0 \/ 2^(k - 1) < 4 * (Len(e) + 1))

Run(c) == Steps(c, RunLog(c.expression))

\* evaluate(e): an int, or None.
evaluate(e) == Run(Start(e)).ret

\* parse_expression(0, sub_expr=False) on an already normalised input, as
\* line 201 calls it, without the scans before it.
parse_only(str) ==
    Run([Start(str) EXCEPT !.s = str, !.pc = "parse", !.stack = <<Frame(0, FALSE)>>]).ret

(***************************************************************************)
(* Inputs.                                                                 *)
(***************************************************************************)
MaxLen == 5

\* Every string of at most MaxLen of these characters is an input.
EnumChars == {"0", "1", "2", "+", "-", "*", "/", "(", ")"}

Strings(chars, maxlen) == UNION {[1..k -> chars] : k \in 0..maxlen}

ShortInputs == Strings(EnumChars, MaxLen)

\* Inputs with whitespace and with characters outside the alphabet.
MaxRawLen == 3

RawChars == {"1", "+", "(", ")", " ", "#"}

RawInputs == Strings(RawChars, MaxRawLen)

\* Longer inputs built from operands: literals, groups, signed groups.
Lits == {<<"0">>, <<"1">>, <<"3">>, <<"-", "2">>, <<"+", "1">>, <<"1", "2">>}

Pre == {<<>>, <<"-">>, <<"+">>}

Chains ==
    {a \o <<o1>> \o b \o <<o2>> \o c : a \in Lits, b \in Lits, c \in Lits,
                                        o1 \in Operators, o2 \in Operators}

Pairs ==
    {a \o <<o>> \o b : a \in {<<"0">>, <<"3">>, <<"-", "2">>},
                        b \in {<<"0">>, <<"3">>, <<"-", "2">>}, o \in Operators}

GroupOf(pre, e) == pre \o <<"(">> \o e \o <<")">>

LitGroups == {GroupOf(pre, e) : pre \in Pre, e \in Lits}

Groups == LitGroups \cup {GroupOf(pre, e) : pre \in Pre, e \in Pairs}

Nested == {GroupOf(pre, g) : pre \in Pre, g \in Groups}

Binary ==
    {x \o <<o>> \o y : x \in Lits \cup LitGroups, y \in Lits \cup Groups, o \in Operators}
    \cup {x \o <<o>> \o y : x \in Groups, y \in Lits, o \in Operators}

FormedInputs == Chains \cup Groups \cup Nested \cup Binary

\* Operands beyond 2^53, where a double no longer holds every integer:
\* 2^53, 2^53 + 1 and 3 * 2^52 + 2.
WideLits ==
    {<<"9", "0", "0", "7", "1", "9", "9", "2", "5", "4", "7", "4", "0", "9", "9", "2">>,
     <<"9", "0", "0", "7", "1", "9", "9", "2", "5", "4", "7", "4", "0", "9", "9", "3">>,
     <<"1", "3", "5", "1", "0", "7", "9", "8", "8", "8", "2", "1", "1", "1", "4", "9", "0">>}

WideInputs ==
    {pre \o w \o <<o>> \o d : pre \in {<<>>, <<"-">>}, w \in WideLits, o \in Operators,
                               d \in {<<"0">>, <<"1">>, <<"3">>}}
    \cup {d \o <<o>> \o w : w \in WideLits, o \in Operators, d \in {<<"1">>, <<"3">>}}

Inputs == ShortInputs \cup RawInputs \cup FormedInputs \cup WideInputs

\* Normalised inputs, as parse_expression gets them: every string of at
\* most MaxParserLen characters, and the formed and wide inputs.
MaxParserLen == 4

ParserInputs == Strings(EnumChars, MaxParserLen) \cup FormedInputs \cup WideInputs

(***************************************************************************)
(* Actions.                                                                *)
(***************************************************************************)
Set(c) ==
    /\ pc' = c.pc /\ s' = c.s /\ stack' = c.stack /\ rv' = c.rv /\ ret' = c.ret
    /\ pn' = c.pn /\ ap' = c.ap /\ sites' = c.sites /\ dz' = c.dz
    /\ UNCHANGED expression

Init ==
    /\ expression \in Inputs
    /\ pc = "sanitize" /\ s = <<>> /\ stack = <<>> /\ rv = NoCall /\ ret = Unset
    /\ pn = NoCall /\ ap = NoCall /\ sites = {} /\ dz = {}

Sanitize == pc = "sanitize" /\ Set(do_sanitize(Cfg))

BalanceCheck == pc = "balance" /\ Set(do_balance(Cfg))

EndOfInput == can_end_of_input(Cfg) /\ Set(do_end_of_input(Cfg))

SignedGroup == can_signed_group(Cfg) /\ Set(do_signed_group(Cfg))

Group == can_group(Cfg) /\ Set(do_group(Cfg))

Number == can_number(Cfg) /\ Set(do_number(Cfg))

NoOperand == can_no_operand(Cfg) /\ Set(do_no_operand(Cfg))

Operator == can_operator(Cfg) /\ Set(do_operator(Cfg))

Close == can_close(Cfg) /\ Set(do_close(Cfg))

BadOperator == can_bad_operator(Cfg) /\ Set(do_bad_operator(Cfg))

Resume == can_resume(Cfg) /\ Set(do_resume(Cfg))

Finish == can_finish(Cfg) /\ Set(do_finish(Cfg))

ParseStep ==
    \/ EndOfInput \/ SignedGroup \/ Group \/ Number \/ NoOperand
    \/ Operator \/ Close \/ BadOperator \/ Resume \/ Finish

Next == Sanitize \/ BalanceCheck \/ ParseStep

Spec == Init /\ [][Next]_vars

\* parse_expression(0, sub_expr=False) called directly on a normalised input.
InitParser ==
    /\ expression \in ParserInputs
    /\ pc = "parse" /\ s = expression /\ stack = <<Frame(0, FALSE)>> /\ rv = NoCall
    /\ ret = Unset /\ pn = NoCall /\ ap = NoCall /\ sites = {} /\ dz = {}

NextParser == ParseStep

SpecParser == InitParser /\ [][NextParser]_vars

(***************************************************************************)
(* Reference notions the properties are stated with.  They are defined     *)
(* from the mathematics (counting, exact quotients, a left fold over the   *)
(* operands), not from the parser.                                         *)
(***************************************************************************)
\* The quotient of a by b truncated toward zero, exactly.
RefTrunc(a, b) == MkInt(a.neg # b.neg, MagDivMod(a.mag, b.mag).q)

\* How often ch occurs among the first k characters.
RefCount(str, ch, k) == Cardinality({j \in 1..k : str[j] = ch})

\* As many '(' as ')', and no prefix with more ')' than '('.
RefBalanced(str) ==
    /\ RefCount(str, "(", Len(str)) = RefCount(str, ")", Len(str))
    /\ \A k \in 1..Len(str) : RefCount(str, ")", k) <= RefCount(str, "(", k)

\* Parenthesis depth after the character at 0-based index q (q = -1: before the input).
RefDepth(str, q) == RefCount(str, "(", q + 1) - RefCount(str, ")", q + 1)

\* The indices after p at which the depth is back to the depth before p.
RefCloses(str, p) == {q \in (p + 1)..(Len(str) - 1) : RefDepth(str, q) = RefDepth(str, p - 1)}

\* The index of the ')' matching the '(' at index p.
RefMatch(str, p) == CHOOSE q \in RefCloses(str, p) : \A r \in RefCloses(str, p) : q <= r

\* An optionally signed integer starting at index p: where its digits end.
RefDigitsFrom(str, p) == IF p < Len(str) /\ At(str, p) \in Signs THEN p + 1 ELSE p

RefRunEnd(str, p) ==
    CHOOSE e \in p..Len(str) :
        /\ \A j \in p..(e - 1) : At(str, j) \in Digits
        /\ (e = Len(str) \/ At(str, e) \notin Digits)

RefOperand(str, p) ==
    LET d == RefDigitsFrom(str, p)
        e == IF d <= Len(str) THEN RefRunEnd(str, d) ELSE d
        m == MkInt(FALSE, int_of_digits(Slice(str, d, e)))
    IN  [ok |-> p < Len(str) /\ e > d, next |-> e,
         val |-> IF d > p /\ At(str, p) = "-" THEN IntNeg(m) ELSE m]

RefBad == [bad |-> TRUE]

RefApply(a, op, b) ==
    CASE op = "+" -> IntAdd(a, b)
      [] op = "-" -> IntSub(a, b)
      [] op = "*" -> IntMul(a, b)
      [] op = "/" -> RefTrunc(a, b)

\* ((v1 op1 v2) op2 v3) ... from index p on, with acc the fold so far; RefBad
\* when the rest is not (op v)* or divides by zero.
RECURSIVE RefFold(_, _, _)
RefFold(str, p, acc) ==
    IF p >= Len(str) THEN acc
    ELSE IF At(str, p) \notin Operators THEN RefBad
    ELSE LET o == RefOperand(str, p + 1)
         IN  IF ~o.ok THEN RefBad
             ELSE IF At(str, p) = "/" /\ IsZero(o.val) THEN RefBad
             ELSE RefFold(str, o.next, RefApply(acc, At(str, p), o.val))

\* The left fold of a well-formed parenthesis-free input v1 op1 v2 ... vk.
RefLeftFold(str) ==
    LET o == RefOperand(str, 0)
    IN  IF ~o.ok THEN RefBad ELSE RefFold(str, o.next, o.val)

Normalized == strip(expression)

FailureSites ==
    {"L127", "L136", "L145", "L152", "L156", "L163", "L166", "L182", "L186", "L189",
     "L194", "L197"}

(***************************************************************************)
(* Properties.                                                             *)
(***************************************************************************)

\* C1: for a well-formed parenthesis-free input v1 op1 v2 ... vk without a
\* division by zero, evaluate returns the left fold ((v1 op1 v2) op2 v3) ...,
\* '/' being the quotient truncated toward zero.
C1_LeftFold ==
    (pc = "done" /\ all_allowed(Normalized) /\ RefLeftFold(Normalized) # RefBad)
        => ret = RefLeftFold(Normalized)

\* With operands that a double holds exactly the left fold of C1 is what
\* evaluate returns: C1 fails on the wide operands only.
LeftFoldOfNarrowOperands == expression \notin WideInputs => C1_LeftFold

\* C2: every application of '/' to (a, b) with b # 0 yields exactly the
\* quotient a/b truncated toward zero, whatever the size of the operands.
C2_DivisionExact ==
    (ap.live /\ ap.op = "/" /\ ~IsZero(ap.b)) => ap.out = RefTrunc(ap.a, ap.b)

\* C3: once '/' has been applied to a right operand of value 0, at any
\* nesting depth, that application fails and evaluate returns None.
C3_DivisionByZeroFails ==
    /\ (ap.live /\ ap.op = "/" /\ IsZero(ap.b)) => ap.out = None
    /\ (pc = "done" /\ dz # {}) => ret = None

C3_Witness == pc = "done" /\ (\E d \in dz : d >= 1) /\ RefBalanced(expression) /\ ret = None

\* C4: an input whose parentheses are not balanced (unequal counts, or a
\* prefix with more ')' than '(') makes evaluate return None.
C4_UnbalancedFails == (pc = "done" /\ ~RefBalanced(expression)) => ret = None

C4_Witness ==
    /\ pc = "done" /\ ret = None /\ all_allowed(Normalized) /\ ~RefBalanced(expression)
    /\ RefCount(expression, "(", Len(expression)) = RefCount(expression, ")", Len(expression))
    /\ RefCount(expression, "(", Len(expression)) >= 1

\* C5: a sign directly before a group (E), at the start of the input or as
\* the right operand of an operator after a well-formed L, contributes the
\* value of (E), negated for '-': evaluate("-(E)") = -evaluate("(E)"),
\* evaluate("+(E)") = evaluate("(E)"), evaluate("L op -(E)") =
\* evaluate(L) op -evaluate("(E)").
SignedGroupAt(str, k) ==
    /\ str[k] \in Signs /\ str[k + 1] = "(" /\ str[Len(str)] = ")"
    /\ evaluate(SubSeq(str, k + 2, Len(str) - 1)) # None
    /\ (k = 1 \/ (k >= 3 /\ str[k - 1] \in Operators /\ evaluate(SubSeq(str, 1, k - 2)) # None))

SignedGroupValue(str, k) ==
    LET g == evaluate(SubSeq(str, k + 1, Len(str)))
        operand == IF str[k] = "-" THEN IntNeg(g) ELSE g
    IN  IF k = 1 THEN operand
        ELSE perform_arithmetic_op(evaluate(SubSeq(str, 1, k - 2)), str[k - 1], operand)

C5_SignedGroup ==
    (pc = "done" /\ all_allowed(Normalized))
        => \A k \in 1..(Len(Normalized) - 3) :
              SignedGroupAt(Normalized, k) => ret = SignedGroupValue(Normalized, k)

C5_Witness ==
    /\ pc = "done" /\ all_allowed(Normalized) /\ ret # None /\ ret.neg
    /\ \E k \in 3..(Len(Normalized) - 3) :
          /\ SignedGroupAt(Normalized, k) /\ Normalized[k] = "-"
          /\ Normalized[k - 1] = "*" /\ Len(Normalized) - k >= 5

\* C6: an input that is empty once stripped, or ends with an operator, or
\* contains "()", makes evaluate return None; and evaluate returns a value
\* only from the top-level call, at the end of the input, with a result and
\* in the state that expects an operator.
Incomplete(str) ==
    \/ str = <<>>
    \/ str[Len(str)] \in Operators
    \/ \E k \in 1..(Len(str) - 1) : str[k] = "(" /\ str[k + 1] = ")"

C6_IncompleteFails ==
    pc = "done" =>
        /\ Incomplete(Normalized) => ret = None
        /\ ret # None =>
              /\ rv.live /\ ~rv.frame.sub_expr /\ rv.frame.i = Len(s)
              /\ rv.frame.result # None /\ ~rv.frame.expecting_number

C6_Witness ==
    /\ pc = "done" /\ ret = None /\ "L197" \in sites
    /\ Normalized # <<>> /\ Normalized[Len(Normalized)] \in Operators
    /\ rv.frame.result # None

\* C7: when parse_number fails, the position it returns is the position it
\* was called with.
C7_NumberFailureKeepsPosition == (pn.live /\ pn.val = None) => pn.pos = pn.start

\* C8: in every call of parse_expression the position never decreases; a loop
\* iteration that does not return leaves it greater, and a recursive call
\* starts past its caller's position; every step lowers a bounded measure,
\* so evaluate returns after finitely many steps.
Measure ==
    IF pc = "done" THEN 0
    ELSE IF pc = "sanitize" THEN 4 * Len(expression) + 11
    ELSE IF pc = "balance" THEN 4 * Len(s) + 10
    ELSE IF rv.live /\ ~rv.ok THEN 1 + Len(stack)
    ELSE LET cur == IF rv.live THEN rv.pos ELSE stack[Len(stack)].i
         IN  Len(s) + 3 + 3 * (Len(s) - cur)
             + (IF ~rv.live THEN 1 ELSE IF stack = <<>> THEN 0 ELSE 2)

C8_Step ==
    /\ \A k \in 1..Len(stack) : k <= Len(stack') => stack'[k].i >= stack[k].i
    /\ (stack # <<>> /\ Len(stack') = Len(stack) /\ ~rv'.live)
          => stack'[Len(stack')].i > stack[Len(stack)].i
    /\ (stack # <<>> /\ Len(stack') = Len(stack) + 1)
          => stack'[Len(stack')].i > stack[Len(stack)].i
    /\ \A k \in 1..Len(stack') : stack'[k].i <= Len(s')
    /\ Measure' < Measure

C8_PositionAdvances == [][C8_Step]_vars

C8_Witness ==
    /\ pc = "parse" /\ ~rv.live /\ Len(stack) >= 3
    /\ stack[Len(stack)].i > stack[Len(stack)].start
    /\ stack[1].i > 0

\* C9: a call of parse_expression made for the group opened by the '(' at
\* index p returns success only with the position one past the ')' that
\* matches that '('; otherwise it returns failure without a value, and
\* evaluate then returns None.
C9_GroupEndsAtMatch ==
    /\ (rv.live /\ rv.frame.sub_expr /\ rv.ok) =>
          LET p == rv.frame.start - 1
          IN  /\ At(s, p) = "("
              /\ RefCloses(s, p) # {}
              /\ rv.pos = RefMatch(s, p) + 1
              /\ rv.val # None
    /\ (rv.live /\ ~rv.ok) => rv.val = None
    /\ (pc = "done" /\ sites \cap FailureSites # {}) => ret = None

C9_Witness ==
    /\ rv.live /\ rv.frame.sub_expr /\ rv.ok /\ Len(stack) >= 2
    /\ rv.pos - rv.frame.start >= 4
    /\ rv.pos < Len(s)

\* C10: parse_expression alone returns what evaluate returns with its
\* balance scan; and on an input the scan accepts, the parser returns
\* neither at its top-level "unmatched )" (line 186) nor at its "end of
\* input inside a group" (line 194).
C10_ScanChangesNothing ==
    /\ pc = "done" => ret = evaluate(expression)
    /\ balance_ok(s) => sites \cap {"L186", "L194"} = {}

C10_Witness ==
    /\ pc = "done" /\ ~balance_ok(s) /\ ret = None
    /\ sites \cap {"L186", "L194"} # {} /\ Len(s) >= 4

====
